---- MODULE Spec2Model ----
(***************************************************************************)
(* Model of vision/classification/imagenet_validation.ipynb: the two       *)
(* metric objects the notebook constructs (mx.metric.Accuracy and          *)
(* mx.metric.TopKAccuracy(5)), the cells that reset, update and read them, *)
(* and the evaluation loop over the validation DataLoader.                 *)
(*                                                                         *)
(* The spec's accumulator (top1_correct, top5_correct,                     *)
(* total_examples_seen, reset/update/finalize) is, in the notebook, the    *)
(* pair acc_top1 / acc_top5:                                               *)
(*     top1_correct        = acc_top1.sum_metric                           *)
(*     top5_correct        = acc_top5.sum_metric                           *)
(*     total_examples_seen = acc_top1.num_inst (= acc_top5.num_inst)       *)
(*     reset()    = acc_top1.reset(); acc_top5.reset()                     *)
(*     update()   = acc_top1.update(label, outputs);                       *)
(*                  acc_top5.update(label, outputs)                        *)
(*     finalize() = acc_top1.get(); acc_top5.get()                         *)
(* The bodies of reset/update/get are those of the MXNet metric classes    *)
(* the notebook instantiates; each operator below names the call site.     *)
(*                                                                         *)
(* Scores are finite numbers (small naturals); NaN scores are not          *)
(* modelled.  Class indices are 0-based as in the notebook; row[c + 1] is  *)
(* the score of class c.                                                   *)
(***************************************************************************)
EXTENDS Integers, Sequences, FiniteSets, TLC

VARIABLES
    ties,         \* how numpy.argsort orders equal scores in this build
    num_classes,  \* width of the bound network's output (frozen model)
    acc_top1,     \* mx.metric.Accuracy():      [sum_metric, num_inst]
    acc_top5,     \* mx.metric.TopKAccuracy(5): [sum_metric, num_inst]
    call,         \* outcome of the last cell run: [op, raised, ret, valid]
    val_data,     \* the batches the DataLoader yields, in order
    i,            \* enumerate() index of the evaluation loop
    pc,           \* position of the notebook script
    hist,         \* history: resets run, batch indices handed to each metric
    workers,      \* independent metric pairs, one per worker
    owner,        \* which worker evaluates which batch of val_data
    pos           \* per worker: index of the last batch it has evaluated

vars == <<ties, num_classes, acc_top1, acc_top5, call, val_data, i, pc, hist,
          workers, owner, pos>>

-----------------------------------------------------------------------------
(* Program constants and model bounds *)

top_k == 5

Spread == 1

MaxBatch == 2

MaxSeen == 5

MaxExamples == 3

\* One network width at most top_k and one above it.
ClassCounts == {top_k - Spread, top_k + Spread}

\* numpy.argsort (default kind) is not a stable sort: the order it gives equal
\* scores is fixed for a build but not specified.  "stable" keeps equal scores
\* in index order, "reversed" in reverse index order.
TiePolicies == {"stable", "reversed"}

-----------------------------------------------------------------------------
(* Inputs *)

Flat(C) == [c \in 1..C |-> 0]

Ramp(C) == [c \in 1..C |-> c]

\* Score rows: all classes tied, and all scores distinct with the last
\* class highest.
Rows(C) == {Flat(C), Ramp(C)}

\* Labels a batch source yields: valid class indices.
SourceLabels(C) == {0, C - 1}

\* Labels a caller may pass: C itself is out of range.
AnyLabels(C) == {0, C - 1, C}

SeqsUpTo(S, n) == UNION {[1..k -> S] : k \in 1..n}

\* Arguments of one update cell: a label array and an output array, whose
\* lengths may differ and whose width may differ from the network's.
CallBatches ==
    UNION {{[label |-> l, outputs |-> o] :
                l \in SeqsUpTo(AnyLabels(C), MaxBatch),
                o \in SeqsUpTo(Rows(C), MaxBatch)} : C \in ClassCounts}

\* One validation example: its label and the scores the frozen network
\* outputs for its image.
Examples(C) == [label : SourceLabels(C), scores : Rows(C)]

\* Every finite sequence of non-empty batches holding at most n examples of E.
RECURSIVE Sources(_, _)
Sources(E, n) ==
    {<<>>} \cup
    UNION {{<<b>> \o s : s \in Sources(E, n - Len(b))} :
               b \in SeqsUpTo(E, n)}

\* batch[1] of a DataLoader item: the label array.
Labels(batch) == [n \in 1..Len(batch) |-> batch[n].label]

\* mod.forward(...); mod.get_outputs(): one score row per example.
Outputs(batch) == [n \in 1..Len(batch) |-> batch[n].scores]

Workers == {1, 2}

-----------------------------------------------------------------------------
(* The metric library, as called by the notebook *)

ZeroMetric == [sum_metric |-> 0, num_inst |-> 0]

\* mx.nd.argmax(axis=1) of one row: the first occurrence of the maximum.
argmax(row) ==
    CHOOSE c \in 0..(Len(row) - 1) :
        \A d \in 0..(Len(row) - 1) :
            \/ row[d + 1] < row[c + 1]
            \/ row[d + 1] = row[c + 1] /\ c <= d

\* Whether class a is placed before class b by the ascending argsort.
SortsBefore(row, a, b, t) ==
    \/ row[a + 1] < row[b + 1]
    \/ /\ row[a + 1] = row[b + 1]
       /\ IF t = "stable" THEN a < b ELSE a > b

\* numpy.argsort(row) ascending: position j (0-based) -> class index.
argsort(row, t) ==
    [j \in 0..(Len(row) - 1) |->
        CHOOSE c \in 0..(Len(row) - 1) :
            Cardinality({d \in 0..(Len(row) - 1) : SortsBefore(row, d, c, t)}) = j]

\* check_label_shapes: TRUE when it does not raise ValueError.
check_label_shapes(labels, preds) == Len(labels) = Len(preds)

Min(a, b) == IF a < b THEN a ELSE b

\* Accuracy.update with "+=" on num_inst replaced by "=".
Accuracy_update_assign(metric, label, pred_label) ==
    IF ~check_label_shapes(label, pred_label)
    THEN [metric |-> metric, raised |-> "ValueError"]
    ELSE [metric |->
            [sum_metric |-> metric.sum_metric
                 + Cardinality({n \in 1..Len(pred_label) :
                                    argmax(pred_label[n]) = label[n]}),
             num_inst |-> Len(pred_label)],
          raised |-> "none"]

\* Accuracy.update counting one instance per call instead of per example.
Accuracy_update_percall(metric, label, pred_label) ==
    IF ~check_label_shapes(label, pred_label)
    THEN [metric |-> metric, raised |-> "ValueError"]
    ELSE [metric |->
            [sum_metric |-> metric.sum_metric
                 + Cardinality({n \in 1..Len(pred_label) :
                                    argmax(pred_label[n]) = label[n]}),
             num_inst |-> metric.num_inst + 1],
          raised |-> "none"]

\* acc_top1.update(label, outputs)
Accuracy_update(metric, label, pred_label) ==
    IF ~check_label_shapes(label, pred_label)
    THEN [metric |-> metric, raised |-> "ValueError"]
    ELSE [metric |->
            [sum_metric |-> metric.sum_metric
                 + Cardinality({n \in 1..Len(pred_label) :
                                    argmax(pred_label[n]) = label[n]}),
             num_inst |-> metric.num_inst + Len(pred_label)],
          raised |-> "none"]

\* TopKAccuracy.update overwriting sum_metric instead of adding to it.
TopKAccuracy_update_overwrite(metric, label, pred_label, t) ==
    IF ~check_label_shapes(label, pred_label)
    THEN [metric |-> metric, raised |-> "ValueError"]
    ELSE LET num_samples == Len(pred_label)
             width == Len(pred_label[1])
             k == Min(width, top_k)
         IN  [metric |->
                [sum_metric |->
                     Cardinality({p \in (1..num_samples) \X (0..(k - 1)) :
                         argsort(pred_label[p[1]], t)[width - 1 - p[2]]
                             = label[p[1]]}),
                 num_inst |-> metric.num_inst + num_samples],
              raised |-> "none"]

\* acc_top5.update(label, outputs): for j in range(min(num_classes, top_k)),
\* sum_metric += (argsort[:, num_classes - 1 - j] == label).sum()
TopKAccuracy_update(metric, label, pred_label, t) ==
    IF ~check_label_shapes(label, pred_label)
    THEN [metric |-> metric, raised |-> "ValueError"]
    ELSE LET num_samples == Len(pred_label)
             width == Len(pred_label[1])
             k == Min(width, top_k)
         IN  [metric |->
                [sum_metric |-> metric.sum_metric
                     + Cardinality({p \in (1..num_samples) \X (0..(k - 1)) :
                         argsort(pred_label[p[1]], t)[width - 1 - p[2]]
                             = label[p[1]]}),
                 num_inst |-> metric.num_inst + num_samples],
              raised |-> "none"]

\* The value a metric's get() returns: NaN when nothing was counted, else the
\* quotient sum_metric / num_inst, kept as numerator and denominator.
EvalMetric_get(metric) ==
    IF metric.num_inst = 0
    THEN [nan |-> TRUE, num |-> 0, den |-> 0]
    ELSE [nan |-> FALSE, num |-> metric.sum_metric, den |-> metric.num_inst]

-----------------------------------------------------------------------------
(* The cells, run in any order and any number of times *)

\* What the contract calls a valid batch for a network of C classes.
IsValidBatch(b, C) ==
    /\ Len(b.label) = Len(b.outputs)
    /\ \A n \in 1..Len(b.outputs) : Len(b.outputs[n]) = C
    /\ \A n \in 1..Len(b.label) : b.label[n] \in 0..(C - 1)

Idle == <<val_data, i, pc, hist, workers, owner, pos>>

NoLoop ==
    /\ val_data = <<>>
    /\ i = 0
    /\ hist = [resets |-> 0, top1 |-> <<>>, top5 |-> <<>>]
    /\ workers = <<>>
    /\ owner = <<>>
    /\ pos = <<>>

Init ==
    /\ ties \in TiePolicies
    /\ num_classes \in ClassCounts
    /\ acc_top1 = ZeroMetric
    /\ acc_top5 = ZeroMetric
    /\ call = [op |-> "construct", raised |-> "none", ret |-> <<>>, valid |-> TRUE]
    /\ pc = "cells"
    /\ NoLoop

\* acc_top1.reset(); acc_top5.reset()
Reset ==
    /\ acc_top1' = ZeroMetric
    /\ acc_top5' = ZeroMetric
    /\ call' = [op |-> "reset", raised |-> "none", ret |-> <<>>, valid |-> TRUE]
    /\ UNCHANGED <<ties, num_classes>>
    /\ UNCHANGED Idle

\* acc_top1.update(label, outputs); acc_top5.update(label, outputs).
\* An exception in the first statement leaves the second one unexecuted.
Update(b) ==
    /\ acc_top1.num_inst + Len(b.outputs) <= MaxSeen
    /\ LET r1 == Accuracy_update(acc_top1, b.label, b.outputs)
           r5 == TopKAccuracy_update(acc_top5, b.label, b.outputs, ties)
       IN  /\ acc_top1' = r1.metric
           /\ acc_top5' = IF r1.raised = "none" THEN r5.metric ELSE acc_top5
           /\ call' = [op |-> "update",
                       raised |-> IF r1.raised = "none" THEN r5.raised ELSE r1.raised,
                       ret |-> <<>>,
                       valid |-> IsValidBatch(b, num_classes)]
    /\ UNCHANGED <<ties, num_classes>>
    /\ UNCHANGED Idle

\* The get() of the print cell with a reset slipped in.
Get_and_reset ==
    /\ call' = [op |-> "get", raised |-> "none",
                ret |-> <<EvalMetric_get(acc_top1), EvalMetric_get(acc_top5)>>,
                valid |-> TRUE]
    /\ acc_top1' = ZeroMetric
    /\ acc_top5' = ZeroMetric
    /\ UNCHANGED <<ties, num_classes>>
    /\ UNCHANGED Idle

\* _, top1 = acc_top1.get(); _, top5 = acc_top5.get()
Get ==
    /\ call' = [op |-> "get", raised |-> "none",
                ret |-> <<EvalMetric_get(acc_top1), EvalMetric_get(acc_top5)>>,
                valid |-> TRUE]
    /\ UNCHANGED <<acc_top1, acc_top5>>
    /\ UNCHANGED <<ties, num_classes>>
    /\ UNCHANGED Idle

Next ==
    \/ Reset
    \/ \E b \in CallBatches : Update(b)
    \/ Get

Spec == Init /\ [][Next]_vars

-----------------------------------------------------------------------------
(* The accumulator's three counters, in the contract's names *)

top1_correct == acc_top1.sum_metric

top5_correct == acc_top5.sum_metric

total_examples_seen == acc_top1.num_inst

Counters == <<acc_top1, acc_top5>>

NoDecrease ==
    /\ acc_top1'.sum_metric >= acc_top1.sum_metric
    /\ acc_top5'.sum_metric >= acc_top5.sum_metric
    /\ acc_top1'.num_inst >= acc_top1.num_inst
    /\ acc_top5'.num_inst >= acc_top5.num_inst

NonNegative ==
    /\ acc_top1.sum_metric \in Nat
    /\ acc_top5.sum_metric \in Nat
    /\ acc_top1.num_inst \in Nat
    /\ acc_top5.num_inst \in Nat

Ratio(n, d) == [nan |-> FALSE, num |-> n, den |-> d]

-----------------------------------------------------------------------------
(* Claims about the cells run in any order *)

\* C2: an update with an invalid batch (lengths differ, a label out of
\* range, a score vector whose length is not num_classes) fails and leaves
\* all three counters as they were.
C2_InvalidUpdateIsAllOrNothing ==
    [][(call'.op = "update" /\ ~call'.valid)
          => (call'.raised # "none" /\ Counters' = Counters)]_vars

\* C3: finalize with total_examples_seen = 0 fails with
\* EmptyAccumulatorError and returns no value; with total_examples_seen > 0
\* it returns (top1_correct / total, top5_correct / total).
C3_FinalizeGuardsEmpty ==
    call.op = "get" =>
        IF total_examples_seen = 0
        THEN call.raised = "EmptyAccumulatorError" /\ call.ret = <<>>
        ELSE /\ call.raised = "none"
             /\ call.ret = <<Ratio(top1_correct, total_examples_seen),
                             Ratio(top5_correct, total_examples_seen)>>

\* C4: after reset the accumulator is as freshly constructed (all counters
\* zero) and a finalize that follows at once raises EmptyAccumulatorError.
C4_ResetIsFresh ==
    /\ [](call.op = "reset" => (acc_top1 = ZeroMetric /\ acc_top5 = ZeroMetric))
    /\ [][(call.op = "reset" /\ call'.op = "get")
             => call'.raised = "EmptyAccumulatorError"]_vars

\* C5: finalize leaves the three counters unchanged, whether it returns
\* ratios or NaN, and two finalize calls in a row return the same values.
C5_FinalizeReadsOnly ==
    [][call'.op = "get"
          => /\ Counters' = Counters
             /\ (call.op = "get" => call'.ret = call.ret)]_vars

C5_Witness ==
    /\ call.op = "get"
    /\ total_examples_seen >= 2
    /\ top5_correct >= 1
    /\ ~call.ret[1].nan

\* C8 as stated: the counters are non-negative integers and none of them
\* decreases in any step, resets included.
C8_NeverDecreases ==
    /\ []NonNegative
    /\ [][NoDecrease]_vars

\* C8 as amended: the counters are non-negative integers and none of them
\* decreases in a step that is an update or a finalize; a reset sets all of
\* them to zero.
C8_NeverDecreasesBetweenResets ==
    /\ []NonNegative
    /\ [][IF call'.op = "reset"
          THEN acc_top1' = ZeroMetric /\ acc_top5' = ZeroMetric
          ELSE NoDecrease]_vars

C8_Witness ==
    /\ call.op = "update"
    /\ call.raised = "none"
    /\ total_examples_seen = MaxSeen
    /\ top1_correct >= 1


-----------------------------------------------------------------------------
(* The notebook run top to bottom: the evaluation cell, then the print cell *)

InitLoop ==
    /\ ties \in TiePolicies
    /\ num_classes \in ClassCounts
    /\ val_data \in Sources(Examples(num_classes), MaxExamples)
    /\ acc_top1 = ZeroMetric
    /\ acc_top5 = ZeroMetric
    /\ call = [op |-> "construct", raised |-> "none", ret |-> <<>>, valid |-> TRUE]
    /\ i = 0
    /\ pc = "reset"
    /\ hist = [resets |-> 0, top1 |-> <<>>, top5 |-> <<>>]
    /\ workers = <<>>
    /\ owner = <<>>
    /\ pos = <<>>

Fixed == <<ties, num_classes, val_data, workers, owner, pos>>

\* acc_top1.reset(); acc_top5.reset(); num_batches = ...; print(...)
LoopReset ==
    /\ pc = "reset"
    /\ acc_top1' = ZeroMetric
    /\ acc_top5' = ZeroMetric
    /\ hist' = [hist EXCEPT !.resets = @ + 1]
    /\ pc' = "for"
    /\ UNCHANGED <<call, i>>
    /\ UNCHANGED Fixed

\* A loop over a DataLoader that drops a final batch shorter than the first.
LoopFor_discard_partial ==
    /\ pc = "for"
    /\ pc' = IF i < Len(val_data) /\ Len(val_data[i + 1]) = Len(val_data[1])
             THEN "upd1" ELSE "print"
    /\ UNCHANGED <<acc_top1, acc_top5, call, i, hist>>
    /\ UNCHANGED Fixed

\* for i, batch in enumerate(val_data): the next batch, or the end of the
\* loop when val_data is exhausted; then the forward pass.
LoopFor ==
    /\ pc = "for"
    /\ pc' = IF i < Len(val_data) THEN "upd1" ELSE "print"
    /\ UNCHANGED <<acc_top1, acc_top5, call, i, hist>>
    /\ UNCHANGED Fixed

\* acc_top1.update(label, outputs)
LoopUpdateTop1 ==
    /\ pc = "upd1"
    /\ LET r == Accuracy_update(acc_top1, Labels(val_data[i + 1]),
                                Outputs(val_data[i + 1]))
       IN  /\ acc_top1' = r.metric
           /\ pc' = IF r.raised = "none" THEN "upd5" ELSE "error"
    /\ hist' = [hist EXCEPT !.top1 = Append(@, i + 1)]
    /\ UNCHANGED <<acc_top5, call, i>>
    /\ UNCHANGED Fixed

\* acc_top5.update(label, outputs); the progress print; the next i
LoopUpdateTop5 ==
    /\ pc = "upd5"
    /\ LET r == TopKAccuracy_update(acc_top5, Labels(val_data[i + 1]),
                                    Outputs(val_data[i + 1]), ties)
       IN  /\ acc_top5' = r.metric
           /\ pc' = IF r.raised = "none" THEN "for" ELSE "error"
    /\ hist' = [hist EXCEPT !.top5 = Append(@, i + 1)]
    /\ i' = i + 1
    /\ UNCHANGED <<acc_top1, call>>
    /\ UNCHANGED Fixed

\* _, top1 = acc_top1.get(); _, top5 = acc_top5.get(); print(...)
LoopPrint ==
    /\ pc = "print"
    /\ call' = [op |-> "get", raised |-> "none",
                ret |-> <<EvalMetric_get(acc_top1), EvalMetric_get(acc_top5)>>,
                valid |-> TRUE]
    /\ pc' = "done"
    /\ UNCHANGED <<acc_top1, acc_top5, i, hist>>
    /\ UNCHANGED Fixed

NextLoop ==
    \/ LoopReset
    \/ LoopFor
    \/ LoopUpdateTop1
    \/ LoopUpdateTop5
    \/ LoopPrint

\* The script runs each statement it reaches.
SpecLoop == InitLoop /\ [][NextLoop]_vars /\ WF_vars(NextLoop)

-----------------------------------------------------------------------------
(* Claims about the evaluation loop *)

RECURSIVE Flatten(_)
Flatten(batches) ==
    IF batches = <<>> THEN <<>> ELSE Head(batches) \o Flatten(Tail(batches))

AllExamples == Flatten(val_data)

LoopOver == pc \in {"print", "done"}

\* C1: when the loop has fed every batch, total_examples_seen is the number
\* of examples fed and both correct counts equal those of a single update
\* over the whole example sequence, however the sequence was cut.
C1_BatchSizeInvariance ==
    LoopOver =>
        /\ acc_top1.num_inst = Len(AllExamples)
        /\ acc_top5.num_inst = Len(AllExamples)
        /\ IF AllExamples = <<>>
           THEN top1_correct = 0 /\ top5_correct = 0
           ELSE /\ acc_top1 = Accuracy_update(ZeroMetric, Labels(AllExamples),
                                              Outputs(AllExamples)).metric
                /\ acc_top5 = TopKAccuracy_update(ZeroMetric, Labels(AllExamples),
                                                  Outputs(AllExamples), ties).metric

C1_Witness ==
    /\ pc = "done"
    /\ Len(val_data) = 2
    /\ Len(AllExamples) = MaxExamples
    /\ top1_correct >= 1
    /\ top5_correct > top1_correct

\* Rank of class c in the contract's ranking of one score row: scores
\* descending, equal scores by lowest class index first.
RankOf(row, c) ==
    Cardinality({d \in 0..(Len(row) - 1) :
                    \/ row[d + 1] > row[c + 1]
                    \/ row[d + 1] = row[c + 1] /\ d < c})

\* C7: an example is counted top-1-correct iff its label is first in the
\* contract's ranking, and top-5-correct iff its label is among the first
\* min(5, num_classes) of the same ranking.
C7_TopKRule ==
    pc = "done" =>
        /\ top1_correct =
               Cardinality({n \in 1..Len(AllExamples) :
                   RankOf(AllExamples[n].scores, AllExamples[n].label) = 0})
        /\ top5_correct =
               Cardinality({n \in 1..Len(AllExamples) :
                   RankOf(AllExamples[n].scores, AllExamples[n].label)
                       < Min(top_k, num_classes)})

\* C9: after the reset and after each update of the run (all of them valid),
\* top1_correct <= top5_correct <= total_examples_seen, ties between scores
\* included, and the ratios the print cell reads are ordered the same way
\* and at most 1.
C9_CounterOrdering ==
    /\ pc \in {"for", "print", "done"} =>
           /\ top1_correct <= top5_correct
           /\ top5_correct <= total_examples_seen
    /\ (pc = "done" /\ ~call.ret[1].nan) =>
           /\ call.ret[1].den = call.ret[2].den
           /\ call.ret[1].num <= call.ret[2].num
           /\ call.ret[2].num <= call.ret[2].den

UpTo(k) == [j \in 1..k |-> j]

RECURSIVE ExamplesIn(_, _)
ExamplesIn(batches, k) ==
    IF k = 0 THEN 0 ELSE Len(batches[k]) + ExamplesIn(batches, k - 1)

LoopInv ==
    /\ pc # "error"
    /\ hist.resets = IF pc = "reset" THEN 0 ELSE 1
    /\ pc = "reset" => (hist.top1 = <<>> /\ hist.top5 = <<>>)
    /\ pc \in {"for", "upd1", "print", "done"} =>
           /\ hist.top1 = UpTo(i)
           /\ hist.top5 = UpTo(i)
           /\ acc_top1.num_inst = ExamplesIn(val_data, i)
           /\ acc_top5.num_inst = ExamplesIn(val_data, i)
    /\ pc = "upd5" => (hist.top1 = UpTo(i + 1) /\ hist.top5 = UpTo(i))
    /\ LoopOver => i = Len(val_data)

\* C10: the loop resets both metrics once before the first batch, hands
\* every batch of the source to both metrics once and in order, partial last
\* batch included, ends when the source is exhausted, and at the end of each
\* iteration and at the print both metrics have counted the examples yielded
\* so far.
C10_LoopCompleteness ==
    /\ []LoopInv
    /\ <>(pc = "done")

C10_Witness ==
    /\ pc = "done"
    /\ Len(val_data) = 2
    /\ Len(val_data[1]) = 2
    /\ Len(val_data[2]) = 1
    /\ hist.top5 = <<1, 2>>

-----------------------------------------------------------------------------
(* Two workers, each with its own pair of metrics over its own batches *)

InitMerge ==
    /\ ties \in TiePolicies
    /\ num_classes \in ClassCounts
    /\ val_data \in Sources(Examples(num_classes), MaxExamples)
    /\ owner \in [1..Len(val_data) -> Workers]
    /\ workers = [w \in Workers |-> [top1 |-> ZeroMetric, top5 |-> ZeroMetric]]
    /\ pos = [w \in Workers |-> 0]
    /\ acc_top1 = ZeroMetric
    /\ acc_top5 = ZeroMetric
    /\ call = [op |-> "construct", raised |-> "none", ret |-> <<>>, valid |-> TRUE]
    /\ i = 0
    /\ pc = "workers"
    /\ hist = [resets |-> 0, top1 |-> <<>>, top5 |-> <<>>]

\* The batches of worker w it has not evaluated yet.
Pending(w) == {j \in 1..Len(val_data) : owner[j] = w /\ j > pos[w]}

\* One iteration of worker w's loop: its next batch goes to its two metrics.
WorkerStep(w) ==
    /\ Pending(w) # {}
    /\ LET j == CHOOSE j \in Pending(w) : \A m \in Pending(w) : j <= m
           r1 == Accuracy_update(workers[w].top1, Labels(val_data[j]),
                                 Outputs(val_data[j]))
           r5 == TopKAccuracy_update(workers[w].top5, Labels(val_data[j]),
                                     Outputs(val_data[j]), ties)
       IN  /\ workers' = [workers EXCEPT ![w] = [top1 |-> r1.metric,
                                                 top5 |-> r5.metric]]
           /\ pos' = [pos EXCEPT ![w] = j]
    /\ UNCHANGED <<ties, num_classes, val_data, owner, acc_top1, acc_top5,
                   call, i, pc, hist>>

NextMerge == \E w \in Workers : WorkerStep(w)

SpecMerge == InitMerge /\ [][NextMerge]_vars

RECURSIVE RunTop1(_, _)
RunTop1(metric, batches) ==
    IF batches = <<>> THEN metric
    ELSE RunTop1(Accuracy_update(metric, Labels(Head(batches)),
                                 Outputs(Head(batches))).metric,
                 Tail(batches))

RECURSIVE RunTop5(_, _)
RunTop5(metric, batches) ==
    IF batches = <<>> THEN metric
    ELSE RunTop5(TopKAccuracy_update(metric, Labels(Head(batches)),
                                     Outputs(Head(batches)), ties).metric,
                 Tail(batches))

\* The pairwise sum of the two workers' counters.
MergedTop1 ==
    [sum_metric |-> workers[1].top1.sum_metric + workers[2].top1.sum_metric,
     num_inst |-> workers[1].top1.num_inst + workers[2].top1.num_inst]

MergedTop5 ==
    [sum_metric |-> workers[1].top5.sum_metric + workers[2].top5.sum_metric,
     num_inst |-> workers[1].top5.num_inst + workers[2].top5.num_inst]

AllWorkersDone == \A w \in Workers : Pending(w) = {}

\* C6: when both workers have evaluated their parts, in whatever order their
\* updates interleaved, the pairwise sum of their counters equals the
\* counters of one accumulator run over all batches in the original order.
C6_MergeEqualsSingleRun ==
    AllWorkersDone =>
        /\ MergedTop1 = RunTop1(ZeroMetric, val_data)
        /\ MergedTop5 = RunTop5(ZeroMetric, val_data)

C6_Witness ==
    /\ AllWorkersDone
    /\ Len(val_data) = MaxExamples
    /\ pos[1] = 2
    /\ pos[2] = MaxExamples
    /\ workers[1].top5.sum_metric >= 1
    /\ workers[2].top5.sum_metric >= 1
    /\ MergedTop1.sum_metric >= 1

====
